---- MODULE Spec2Model ----
(***************************************************************************)
(* Task Manager (src/app/app.py): a Flask application over one Task table, *)
(* with Prometheus request counters and per-status task gauges.            *)
(*                                                                         *)
(* The committed table is db; a handler's uncommitted changes live in a    *)
(* local "pending" copy that commit installs and rollback discards.        *)
(* Spec handles one request at a time (every handler is one action);       *)
(* SpecC interleaves the steps of concurrent requests (the development     *)
(* server started at app.py:314 serves each request on its own thread).    *)
(***************************************************************************)
EXTENDS Integers, Sequences, FiniteSets, TLC

VARIABLES db, gauges, reqCount, completed, now, req, resp, th

vars == <<db, gauges, reqCount, completed, now, req, resp, th>>

(* ------------------------------ bounds -------------------------------- *)

\* Requests served in one behaviour.
MaxRequests == 3
\* Request threads of the concurrent specification.
NThreads == 2

(* --------------------------- Python values ---------------------------- *)

\* Python's None / JSON null.
None == "None"

\* bool(v) for the values a request carries: None and "" are falsy.
Truthy(v) == v \notin {None, ""}

\* dict.get(k, default) on a JSON body or a form.
Get(d, k, default) == IF k \in DOMAIN d THEN d[k] ELSE default

\* The statuses the application knows (app.py:59, app.py:251).
Statuses == <<"todo", "in_progress", "done">>

StatusSet == {Statuses[i] : i \in DOMAIN Statuses}

\* datetime.fromisoformat: the strings it accepts, with the datetime each
\* denotes (written in the canonical form isoformat() prints); any other
\* string raises ValueError.
IsoTable ==
    [s \in {"2024-01-01", "2024-01-01T00:00:00"} |-> "2024-01-01T00:00:00"]

IsIso(s) == s \in DOMAIN IsoTable

FromIsoFormat(s) == IsoTable[s]

(* ------------------------------ the store ----------------------------- *)

\* Task.query.get(task_id) finds a row.
Has(store, id) == id \in DOMAIN store

\* The id the store gives a new row: one past the largest id in the table.
NextId(store) ==
    IF DOMAIN store = {} THEN 1
    ELSE (CHOOSE i \in DOMAIN store : \A j \in DOMAIN store : j <= i) + 1

\* Task(**kw): the model's column defaults fill what the caller leaves out
\* (status todo, created_at and updated_at the current time).
NewTask(id, kw, t) ==
    [id |-> id, title |-> kw.title, description |-> kw.description,
     status |-> "todo", priority |-> kw.priority, due_date |-> kw.due_date,
     created_at |-> t, updated_at |-> t]

\* db.session.add(task): the pending table with the new row.
Add(store, kw, t) ==
    LET id == NextId(store) IN store @@ (id :> NewTask(id, kw, t))

\* db.session.delete(task): the pending table without the row.
Remove(store, id) == [i \in DOMAIN store \ {id} |-> store[i]]

\* task.to_dict(): the JSON form of a row, timestamps printed.
ToDict(task) ==
    [task EXCEPT !.created_at = ToString(task.created_at),
                 !.updated_at = ToString(task.updated_at)]

\* db.session.rollback(): the pending changes are dropped, the committed
\* table stands.
Rollback(committed, pending) == committed

\* Task.query.filter_by(status=status).count()
CountStatus(store, s) == Cardinality({i \in DOMAIN store : store[i].status = s})

(* ------------------------------ responses ----------------------------- *)

Json(code, body) == [code |-> code, kind |-> "json", body |-> body]

Html(code, template) == [code |-> code, kind |-> "html", body |-> [template |-> template]]

\* redirect(url_for('index'))
RedirectIndex == [code |-> 302, kind |-> "redirect", body |-> [location |-> "/"]]

\* What a handler leaves behind: the committed table, the response, and
\* whether it called update_metrics().
Result(store, response, refresh) ==
    [db |-> store, resp |-> response, refresh |-> refresh]

\* str(e) of the exceptions the handlers catch.
ValueErrorMsg == "Invalid isoformat string"

CommitErrorMsg == "OperationalError: commit"

QueryErrorMsg == "OperationalError: query"

KeyErrorMsg == "400 Bad Request: KeyError"

(* ------------------------------ metrics ------------------------------- *)

\* update_metrics(): one count query per status, each written to its gauge.
update_metrics(store) == [s \in StatusSet |-> CountStatus(store, s)]

\* REQUEST_COUNT.labels(method, endpoint, status).inc()
Inc(counter, key) ==
    IF key \in DOMAIN counter THEN [counter EXCEPT ![key] = @ + 1]
    ELSE counter @@ (key :> 1)

\* after_request(response): one increment of the (method, path, status code)
\* counter; the histogram observation does not touch the counters.
after_requestMut(counter, method, path, code) ==
    IF code >= 500 THEN counter ELSE Inc(counter, <<method, path, code>>)

after_request(counter, method, path, code) ==
    Inc(counter, <<method, path, code>>)

(* --------------------------- health checks ---------------------------- *)

\* health(): SELECT 1 succeeds or raises.
health(ok) ==
    IF ok THEN Json(200, [status |-> "healthy", database |-> "connected"])
    ELSE Json(500, [status |-> "unhealthy", error |-> QueryErrorMsg])

\* ready()
ready(ok) ==
    IF ok THEN Json(200, [status |-> "ready"])
    ELSE Json(503, [status |-> "not_ready", error |-> QueryErrorMsg])

\* metrics(): refresh, then the text exposition.
metrics(store) ==
    Result(store, [code |-> 200, kind |-> "text", body |-> [text |-> "metrics"]], TRUE)

\* api_info()
api_info == Json(200, [app_name |-> "Task Manager"])

\* not_found(error): the 404 handler of unknown paths.
not_found == Json(404, [error |-> "Not found"])

\* internal_error(error): rollback, then the 500 body.
internal_error(committed, pending) ==
    Result(Rollback(committed, pending),
           Json(500, [error |-> "Internal server error"]), FALSE)

(* ------------------------------ listing ------------------------------- *)

\* The rows query.filter_by(status=..., priority=...) keeps; a filter that is
\* absent or empty is not applied (app.py:127-130).
Matching(store, args) ==
    {i \in DOMAIN store :
        /\ Truthy(Get(args, "status", None)) => store[i].status = args.status
        /\ Truthy(Get(args, "priority", None)) => store[i].priority = args.priority}

\* order_by(Task.created_at.desc()).all() over the rows ids.
OrderByCreatedDesc(store, ids) ==
    CHOOSE seq \in [1..Cardinality(ids) -> ids] :
        /\ \A i, j \in DOMAIN seq : i # j => seq[i] # seq[j]
        /\ \A i, j \in DOMAIN seq :
              i < j => store[seq[i]].created_at >= store[seq[j]].created_at

\* get_tasks(): the JSON list of the matching rows, newest first.
get_tasks(store, args) ==
    LET rows == OrderByCreatedDesc(store, Matching(store, args))
    IN  Result(store, Json(200, [i \in DOMAIN rows |-> ToDict(store[rows[i]])]), FALSE)

\* The stats dictionary of index() and stats().
Stats(store) ==
    [total |-> Cardinality(DOMAIN store),
     todo |-> CountStatus(store, "todo"),
     in_progress |-> CountStatus(store, "in_progress"),
     done |-> CountStatus(store, "done")]

\* index()
index(store) ==
    Result(store,
           [code |-> 200, kind |-> "html",
            body |-> [template |-> "index.html",
                      tasks |-> OrderByCreatedDesc(store, DOMAIN store),
                      stats |-> Stats(store)]],
           TRUE)

\* stats(): every due date the model knows lies before the clock's first
\* reading, so a task is overdue when it has a due date and is not done.
stats(store) ==
    Result(store,
           [code |-> 200, kind |-> "html",
            body |-> [template |-> "stats.html",
                      stats |-> Stats(store),
                      high_priority |->
                          Cardinality({i \in DOMAIN store : store[i].priority = "high"}),
                      overdue |->
                          Cardinality({i \in DOMAIN store :
                              store[i].due_date # None /\ store[i].status # "done"})]],
           TRUE)

\* get_task(task_id)
get_task(store, id) ==
    IF ~Has(store, id)
    THEN Result(store, Json(404, [error |-> "Task not found"]), FALSE)
    ELSE Result(store, Json(200, ToDict(store[id])), FALSE)

\* view_task(task_id)
view_task(store, id) ==
    IF ~Has(store, id)
    THEN Result(store, [code |-> 404, kind |-> "text", body |-> [text |-> "Task not found"]], FALSE)
    ELSE Result(store, [code |-> 200, kind |-> "html",
                        body |-> [template |-> "task.html", task |-> id]], FALSE)

(* -------------------------- mutating handlers ------------------------- *)

\* The keyword arguments create_task() passes to Task(...) (app.py:144-153).
create_task_kwargsMut(data) ==
    [title |-> data.title,
     description |-> Get(data, "description", ""),
     priority |-> "medium",
     due_date |-> IF Truthy(Get(data, "due_date", None))
                  THEN FromIsoFormat(data.due_date) ELSE None]

create_task_kwargs(data) ==
    [title |-> data.title,
     description |-> Get(data, "description", ""),
     priority |-> Get(data, "priority", "medium"),
     due_date |-> IF Truthy(Get(data, "due_date", None))
                  THEN FromIsoFormat(data.due_date) ELSE None]

\* create_task(): POST /api/tasks with the JSON body data, at clock reading t.
\* fault = "commit" makes db.session.commit() raise; fault = "metrics" makes
\* the first count query of update_metrics() raise, after the commit, inside
\* the same try block.
create_task(store, data, fault, t) ==
    IF ~Truthy(Get(data, "title", None))
    THEN Result(store, Json(400, [error |-> "Title is required"]), FALSE)
    ELSE IF Truthy(Get(data, "due_date", None)) /\ ~IsIso(data.due_date)
    THEN Result(Rollback(store, store), Json(400, [error |-> ValueErrorMsg]), FALSE)
    ELSE LET pending == Add(store, create_task_kwargs(data), t)
         IN  IF fault = "commit"
             THEN Result(Rollback(store, pending),
                         Json(400, [error |-> CommitErrorMsg]), FALSE)
             ELSE IF fault = "metrics"
             THEN Result(Rollback(pending, pending),
                         Json(400, [error |-> QueryErrorMsg]), FALSE)
             ELSE Result(pending, Json(201, ToDict(pending[NextId(store)])), TRUE)

\* if k in data: task.k = data[k]   (app.py:182-189)
ApplyFieldMut(task, data, k) == [task EXCEPT ![k] = Get(data, k, "")]

ApplyField(task, data, k) ==
    IF k \in DOMAIN data THEN [task EXCEPT ![k] = data[k]] ELSE task

\* update_task(task_id): PUT /api/tasks/<id>. The fields are assigned in the
\* order of the code, so a due date that does not parse raises after title,
\* description, status and priority were already assigned.
update_task(store, id, data, fault, t) ==
    IF ~Has(store, id)
    THEN Result(store, Json(404, [error |-> "Task not found"]), FALSE)
    ELSE
    LET t1 == ApplyField(ApplyField(ApplyField(ApplyField(store[id],
                  data, "title"), data, "description"), data, "status"),
                  data, "priority")
    IN  IF "due_date" \in DOMAIN data /\ Truthy(data.due_date) /\ ~IsIso(data.due_date)
        THEN Result(Rollback(store, [store EXCEPT ![id] = t1]),
                    Json(400, [error |-> ValueErrorMsg]), FALSE)
        ELSE
        LET t2 == IF "due_date" \in DOMAIN data
                  THEN [t1 EXCEPT !.due_date =
                           IF Truthy(data.due_date)
                           THEN FromIsoFormat(data.due_date) ELSE None]
                  ELSE t1
            t3 == [t2 EXCEPT !.updated_at = t]
            pending == [store EXCEPT ![id] = t3]
        IN  IF fault = "commit"
            THEN Result(Rollback(store, pending),
                        Json(400, [error |-> CommitErrorMsg]), FALSE)
            ELSE IF fault = "metrics"
            THEN Result(Rollback(pending, pending),
                        Json(400, [error |-> QueryErrorMsg]), FALSE)
            ELSE Result(pending, Json(200, ToDict(t3)), TRUE)

\* delete_task(task_id): DELETE /api/tasks/<id>
delete_task(store, id, fault) ==
    IF ~Has(store, id)
    THEN Result(store, Json(404, [error |-> "Task not found"]), FALSE)
    ELSE IF fault = "commit"
    THEN Result(Rollback(store, Remove(store, id)),
                Json(400, [error |-> CommitErrorMsg]), FALSE)
    ELSE IF fault = "metrics"
    THEN Result(Rollback(Remove(store, id), Remove(store, id)),
                Json(400, [error |-> QueryErrorMsg]), FALSE)
    ELSE Result(Remove(store, id), Json(200, [status |-> "deleted"]), TRUE)

\* new_task(): GET shows the form; POST creates from the form fields. A form
\* without the title field raises at request.form['title'] and is caught.
new_task(store, method, form, fault, t) ==
    IF method # "POST"
    THEN Result(store, Html(200, "new_task.html"), FALSE)
    ELSE IF "title" \notin DOMAIN form
    THEN Result(Rollback(store, store),
                [code |-> 400, kind |-> "html",
                 body |-> [template |-> "new_task.html", error |-> KeyErrorMsg]], FALSE)
    ELSE LET pending == Add(store,
                            [title |-> form.title,
                             description |-> Get(form, "description", ""),
                             priority |-> Get(form, "priority", "medium"),
                             due_date |-> None], t)
         IN  IF fault = "commit"
             THEN Result(Rollback(store, pending),
                         [code |-> 400, kind |-> "html",
                          body |-> [template |-> "new_task.html",
                                    error |-> CommitErrorMsg]], FALSE)
             ELSE IF fault = "metrics"
             THEN Result(Rollback(pending, pending),
                         [code |-> 400, kind |-> "html",
                          body |-> [template |-> "new_task.html",
                                    error |-> QueryErrorMsg]], FALSE)
             ELSE Result(pending, RedirectIndex, TRUE)

\* The status check of update_task_status (app.py:251).
KnownStatusMut(status) == TRUE

KnownStatus(status) == status \in StatusSet

\* update_task_status(task_id, status): GET /task/<id>/status/<status>. The
\* commit and update_metrics() are outside any try: when one raises, the 500
\* handler answers.
update_task_status(store, id, status, fault, t) ==
    IF ~KnownStatus(status) THEN Result(store, RedirectIndex, FALSE)
    ELSE IF ~Has(store, id) THEN Result(store, RedirectIndex, FALSE)
    ELSE LET pending ==
                 [store EXCEPT ![id] = [@ EXCEPT !.status = status, !.updated_at = t]]
         IN  IF fault = "commit" THEN internal_error(store, pending)
             ELSE IF fault = "metrics" THEN internal_error(pending, pending)
             ELSE Result(pending, RedirectIndex, TRUE)

(* ------------------------------ requests ------------------------------ *)

\* Task ids a request path names: every stored task and one id that names
\* no task.
TaskIds(store) == DOMAIN store \cup {NextId(store)}

\* What the store does to a mutating request: nothing ("none"),
\* db.session.commit() raises ("commit"), or the commit succeeds and the next
\* query, the first count of update_metrics, raises ("metrics").
Sent(data, fault) == [data |-> data, fault |-> fault]

\* JSON bodies sent to POST /api/tasks.
PostRequests ==
    { Sent([title |-> "X"], "none"),
      Sent([title |-> "Y", description |-> "d", priority |-> "high",
            due_date |-> "2024-01-01"], "none"),
      Sent([title |-> ""], "none"),
      Sent([description |-> "d"], "none"),
      Sent([title |-> "X", due_date |-> "tomorrow"], "none"),
      Sent([title |-> "X"], "commit"),
      Sent([title |-> "X"], "metrics") }

\* Forms posted to /task/new.
FormRequests ==
    { Sent([title |-> "Y", description |-> "d", priority |-> "low"], "none"),
      Sent([title |-> "", priority |-> "high"], "none"),
      Sent([priority |-> "low"], "none"),
      Sent([title |-> "Y"], "commit"),
      Sent([title |-> "Y"], "metrics") }

\* JSON bodies sent to PUT /api/tasks/<id>.
PutRequests ==
    { Sent([title |-> "Z"], "none"),
      Sent([status |-> "done", due_date |-> None], "none"),
      Sent([status |-> "bogus"], "none"),
      Sent([title |-> "Z", due_date |-> "tomorrow"], "none"),
      Sent([description |-> "e", priority |-> "low",
            due_date |-> "2024-01-01T00:00:00"], "none"),
      Sent([title |-> "Z"], "commit"),
      Sent([status |-> "done"], "metrics") }

\* Status names in the path of the status-change route.
StatusRequests ==
    { Sent("todo", "none"), Sent("in_progress", "none"), Sent("done", "none"),
      Sent("bogus", "none"), Sent("done", "commit"), Sent("in_progress", "metrics") }

Faults == {"none", "commit", "metrics"}

\* Query strings of GET /api/tasks.
ListArgs ==
    { << >>, [status |-> "done"], [status |-> "", priority |-> "high"] }

NoData == << >>

Request(method, path, endpoint, args, data) ==
    [method |-> method, path |-> path, endpoint |-> endpoint,
     args |-> args, data |-> data]

ApiTaskPath(id) == "/api/tasks/" \o ToString(id)

TaskPath(id) == "/task/" \o ToString(id)

StatusPath(id, status) == TaskPath(id) \o "/status/" \o status

(* ----------------------- one request at a time ------------------------ *)

Init ==
    /\ db = << >>
    /\ gauges = [s \in StatusSet |-> 0]
    /\ reqCount = << >>
    /\ completed = 0
    /\ now = 1
    /\ req = Request("", "", "", NoData, NoData)
    /\ resp = [code |-> 0, kind |-> "", body |-> NoData]
    /\ th = [t \in 1..NThreads |-> [pc |-> "idle"]]

\* before_request, the handler with the result r, and after_request.
Serve(rq, r) ==
    /\ completed < MaxRequests
    /\ db' = r.db
    /\ gauges' = IF r.refresh THEN update_metrics(r.db) ELSE gauges
    /\ resp' = r.resp
    /\ req' = rq
    /\ reqCount' = after_request(reqCount, rq.method, rq.path, r.resp.code)
    /\ completed' = completed + 1
    /\ now' = now + 1
    /\ UNCHANGED th

Health ==
    \E ok \in BOOLEAN :
        Serve(Request("GET", "/health", "health", NoData, NoData),
              Result(db, health(ok), FALSE))

Ready ==
    \E ok \in BOOLEAN :
        Serve(Request("GET", "/ready", "ready", NoData, NoData),
              Result(db, ready(ok), FALSE))

Metrics ==
    Serve(Request("GET", "/metrics", "metrics", NoData, NoData), metrics(db))

Index ==
    Serve(Request("GET", "/", "index", NoData, NoData), index(db))

GetTasks ==
    \E args \in ListArgs :
        Serve(Request("GET", "/api/tasks", "get_tasks", args, NoData),
              get_tasks(db, args))

CreateTask ==
    \E s \in PostRequests :
        Serve(Request("POST", "/api/tasks", "create_task", NoData, s.data),
              create_task(db, s.data, s.fault, now))

GetTask ==
    \E id \in TaskIds(db) :
        Serve(Request("GET", ApiTaskPath(id), "get_task", [task_id |-> id], NoData),
              get_task(db, id))

UpdateTask ==
    \E id \in TaskIds(db), s \in PutRequests :
        Serve(Request("PUT", ApiTaskPath(id), "update_task", [task_id |-> id], s.data),
              update_task(db, id, s.data, s.fault, now))

DeleteTask ==
    \E id \in TaskIds(db), fault \in Faults :
        Serve(Request("DELETE", ApiTaskPath(id), "delete_task", [task_id |-> id], NoData),
              delete_task(db, id, fault))

NewTaskForm ==
    Serve(Request("GET", "/task/new", "new_task", NoData, NoData),
          new_task(db, "GET", NoData, "none", now))

NewTaskSubmit ==
    \E s \in FormRequests :
        Serve(Request("POST", "/task/new", "new_task", NoData, s.data),
              new_task(db, "POST", s.data, s.fault, now))

ViewTask ==
    \E id \in TaskIds(db) :
        Serve(Request("GET", TaskPath(id), "view_task", [task_id |-> id], NoData),
              view_task(db, id))

UpdateTaskStatus ==
    \E id \in TaskIds(db), s \in StatusRequests :
        Serve(Request("GET", StatusPath(id, s.data), "update_task_status",
                      [task_id |-> id, status |-> s.data], NoData),
              update_task_status(db, id, s.data, s.fault, now))

StatsPage ==
    Serve(Request("GET", "/stats", "stats", NoData, NoData), stats(db))

ApiInfo ==
    Serve(Request("GET", "/api/info", "api_info", NoData, NoData),
          Result(db, api_info, FALSE))

NotFound ==
    Serve(Request("GET", "/nope", "not_found", NoData, NoData),
          Result(db, not_found, FALSE))

Next ==
    \/ Health
    \/ Ready
    \/ Metrics
    \/ Index
    \/ GetTasks
    \/ CreateTask
    \/ GetTask
    \/ UpdateTask
    \/ DeleteTask
    \/ NewTaskForm
    \/ NewTaskSubmit
    \/ ViewTask
    \/ UpdateTaskStatus
    \/ StatsPage
    \/ ApiInfo
    \/ NotFound

Spec == Init /\ [][Next]_vars

(* ------------------------- concurrent requests ------------------------ *)
(* Each request runs on its own thread. Its handler's database work is one *)
(* transaction; update_metrics() then runs one count query and one gauge   *)
(* write per status, and other threads may run between any two of them.    *)

Threads == 1..NThreads

Idle == [pc |-> "idle"]

InFlight == Cardinality({t \in Threads : th[t].pc # "idle"})

\* before_request and the handler's transaction, with the result r.
Begin(t, rq, r) ==
    /\ th[t].pc = "idle"
    /\ completed + InFlight < MaxRequests
    /\ db' = r.db
    /\ now' = now + 1
    /\ th' = [th EXCEPT ![t] =
                 [pc |-> IF r.refresh THEN "count" ELSE "after",
                  rq |-> rq, resp |-> r.resp, i |-> 1, count |-> 0]]
    /\ UNCHANGED <<gauges, reqCount, completed, req, resp>>

C_CreateTask(t) ==
    \E fault \in {"none", "commit"} :
        Begin(t, Request("POST", "/api/tasks", "create_task", NoData, [title |-> "X"]),
              create_task(db, [title |-> "X"], fault, now))

C_UpdateTaskStatus(t) ==
    \E id \in TaskIds(db), status \in StatusSet \cup {"bogus"} :
        Begin(t, Request("GET", StatusPath(id, status), "update_task_status",
                         [task_id |-> id, status |-> status], NoData),
              update_task_status(db, id, status, "none", now))

C_DeleteTask(t) ==
    \E id \in TaskIds(db) :
        Begin(t, Request("DELETE", ApiTaskPath(id), "delete_task", [task_id |-> id], NoData),
              delete_task(db, id, "none"))

C_Metrics(t) ==
    Begin(t, Request("GET", "/metrics", "metrics", NoData, NoData), metrics(db))

\* update_metrics, app.py:61: count = Task.query.filter_by(status=status).count()
C_Count(t) ==
    /\ th[t].pc = "count"
    /\ th' = [th EXCEPT ![t].count = CountStatus(db, Statuses[th[t].i]),
                        ![t].pc = "set"]
    /\ UNCHANGED <<db, gauges, reqCount, completed, now, req, resp>>

\* update_metrics, app.py:62: TASKS_GAUGE.labels(status=status).set(count)
C_Set(t) ==
    /\ th[t].pc = "set"
    /\ gauges' = [gauges EXCEPT ![Statuses[th[t].i]] = th[t].count]
    /\ th' = IF th[t].i < Len(Statuses)
             THEN [th EXCEPT ![t].i = @ + 1, ![t].pc = "count"]
             ELSE [th EXCEPT ![t].pc = "after"]
    /\ UNCHANGED <<db, reqCount, completed, now, req, resp>>

\* after_request: the response leaves, the request is complete.
C_After(t) ==
    /\ th[t].pc = "after"
    /\ reqCount' = after_request(reqCount, th[t].rq.method, th[t].rq.path,
                                 th[t].resp.code)
    /\ completed' = completed + 1
    /\ req' = th[t].rq
    /\ resp' = th[t].resp
    /\ th' = [th EXCEPT ![t] = Idle]
    /\ UNCHANGED <<db, gauges, now>>

NextC ==
    \E t \in Threads :
        \/ C_CreateTask(t)
        \/ C_UpdateTaskStatus(t)
        \/ C_DeleteTask(t)
        \/ C_Metrics(t)
        \/ C_Count(t)
        \/ C_Set(t)
        \/ C_After(t)

SpecC == Init /\ [][NextC]_vars

(* ------------------------------- claims ------------------------------- *)

\* A request completed in this step; req' and resp' are its request and
\* response.
ReqStep == completed' = completed + 1

\* The ids of the tasks GET /api/tasks returns for the query string args.
ListIds(args) ==
    LET body == get_tasks(db, args).resp.body
    IN  {body[k].id : k \in DOMAIN body}

\* The sum of all request counters.
RECURSIVE SumOver(_, _)
SumOver(counter, keys) ==
    IF keys = {} THEN 0
    ELSE LET k == CHOOSE x \in keys : TRUE
         IN  counter[k] + SumOver(counter, keys \ {k})

\* Every stored status is one the application knows.
AllStatusesKnown == \A i \in DOMAIN db : db[i].status \in StatusSet

\* The request rq names a status outside todo, in_progress, done.
NamesUnknownStatus(rq) ==
    \/ rq.endpoint = "update_task_status" /\ rq.args.status \notin StatusSet
    \/ rq.endpoint = "update_task" /\ "status" \in DOMAIN rq.data
                                   /\ rq.data.status \notin StatusSet

\* The request rq is a create, on the JSON API or the HTML form.
IsCreate(rq) == rq.method = "POST" /\ rq.endpoint \in {"create_task", "new_task"}

\* A create with a non-empty title was answered 201 (API) or with the
\* redirect to the index (form).
CreateSucceeded ==
    /\ ReqStep
    /\ IsCreate(req')
    /\ Truthy(Get(req'.data, "title", None))
    /\ resp'.code \in {201, 302}

\* The fields a PUT body may carry.
PutFields == {"title", "description", "status", "priority", "due_date"}

\* C1: in every reachable state every stored task's status is one of todo,
\* in_progress, done, and a request that names an unrecognized status changes
\* no task's status.
C1_StatusAlwaysKnown ==
    /\ []AllStatusesKnown
    /\ [][ReqStep /\ NamesUnknownStatus(req') =>
            /\ DOMAIN db' = DOMAIN db
            /\ \A i \in DOMAIN db : db'[i].status = db[i].status]_vars

\* C2: a create whose title is empty or missing is answered 400 on the JSON
\* API and on the HTML form and leaves the stored tasks unchanged, so no task
\* has an empty title right after a create.
C2_EmptyTitleRejected ==
    [][ReqStep /\ IsCreate(req') /\ ~Truthy(Get(req'.data, "title", None)) =>
          resp'.code = 400 /\ db' = db]_vars

\* C3: a successful create with a non-empty title (API or form) adds exactly
\* one task, with status todo, the supplied priority or medium, and the
\* supplied title; get_task of the id the API returned then answers with that
\* title and status todo.
C3_CreateAddsOneTodoTask ==
    [][CreateSucceeded =>
        \E id \in DOMAIN db' \ DOMAIN db :
            /\ DOMAIN db' = DOMAIN db \cup {id}
            /\ \A j \in DOMAIN db : db'[j] = db[j]
            /\ db'[id].status = "todo"
            /\ db'[id].priority = Get(req'.data, "priority", "medium")
            /\ db'[id].title = req'.data.title
            /\ req'.endpoint = "create_task" =>
                  /\ resp'.body.id = id
                  /\ get_task(db', resp'.body.id).resp.code = 200
                  /\ get_task(db', resp'.body.id).resp.body.title = req'.data.title
                  /\ get_task(db', resp'.body.id).resp.body.status = "todo"]_vars

C3_Witness ==
    /\ req.endpoint = "create_task"
    /\ resp.code = 201
    /\ "priority" \in DOMAIN req.data
    /\ Has(db, resp.body.id)
    /\ db[resp.body.id].priority = "high"
    /\ db[resp.body.id].status = "todo"

\* C4: a mutating request that fails (is answered with an error) leaves the
\* store exactly as it was before the request.
C4_FailureLeavesStoreUnchanged ==
    [][ReqStep /\ resp'.code >= 400 => db' = db]_vars

\* C5: for each known status s the list filtered by s holds exactly the
\* stored tasks with status s, and the three filtered lists together hold
\* every task of the unfiltered list.
C5_FilteredListsCoverAll ==
    /\ \A s \in StatusSet :
          ListIds([status |-> s]) = {i \in DOMAIN db : db[i].status = s}
    /\ UNION {ListIds([status |-> s]) : s \in StatusSet} = ListIds(NoData)

\* C6: the status-change route with an unknown status or an unknown id
\* redirects to the index and leaves the store unchanged; with a known status
\* and an existing id it never adds, removes or touches another task, and
\* when it redirects the task has the named status, whatever it was before.
C6_StatusRouteFrame ==
    [][ReqStep /\ req'.endpoint = "update_task_status" =>
        LET id == req'.args.task_id
            st == req'.args.status
        IN  IF st \notin StatusSet \/ ~Has(db, id)
            THEN resp' = RedirectIndex /\ db' = db
            ELSE /\ DOMAIN db' = DOMAIN db
                 /\ \A j \in DOMAIN db \ {id} : db'[j] = db[j]
                 /\ db'[id] = [db[id] EXCEPT !.status = db'[id].status,
                                             !.updated_at = db'[id].updated_at]
                 /\ resp' = RedirectIndex => db'[id].status = st]_vars

C6_Witness ==
    /\ req.endpoint = "update_task_status"
    /\ resp = RedirectIndex
    /\ req.args.status = "in_progress"
    /\ Cardinality(DOMAIN db) >= 2
    /\ Has(db, req.args.task_id)
    /\ db[req.args.task_id].status = "in_progress"
    /\ db[req.args.task_id].updated_at > db[req.args.task_id].created_at

\* C7: a commit that fails in POST, PUT or DELETE on /api/tasks is answered
\* with HTTP 500.
C7_CommitFailureIs500 ==
    (/\ req.endpoint \in {"create_task", "update_task", "delete_task"}
     /\ "error" \in DOMAIN resp.body
     /\ resp.body.error = CommitErrorMsg)
    => resp.code = 500

\* C8: a successful PUT changes, of the task it names, only the fields present
\* in the body and updated_at; id, created_at, the absent fields and every
\* other task are unchanged, and no task is added or removed.
C8_PutFrame ==
    [][ReqStep /\ req'.endpoint = "update_task" /\ resp'.code = 200 =>
        LET id == req'.args.task_id
        IN  /\ DOMAIN db' = DOMAIN db
            /\ Has(db, id)
            /\ \A j \in DOMAIN db \ {id} : db'[j] = db[j]
            /\ db'[id].id = db[id].id
            /\ db'[id].created_at = db[id].created_at
            /\ \A f \in PutFields \ DOMAIN req'.data : db'[id][f] = db[id][f]]_vars

C8_Witness ==
    /\ req.endpoint = "update_task"
    /\ resp.code = 200
    /\ Cardinality(DOMAIN db) >= 2
    /\ DOMAIN req.data = {"description", "priority", "due_date"}
    /\ db[req.args.task_id].description = "e"
    /\ db[req.args.task_id].title = "Y"
    /\ db[req.args.task_id].updated_at > db[req.args.task_id].created_at

\* C9: when no request is in flight, the gauge of each known status equals
\* the number of stored tasks with that status.
C9_GaugesMatchAtQuiescence ==
    (\A t \in Threads : th[t].pc = "idle") =>
        \A s \in StatusSet : gauges[s] = CountStatus(db, s)

\* C10: every completed request adds exactly one to the counter of its
\* (method, path, status code) and changes no other counter; no counter ever
\* decreases; the counters sum to the number of completed requests.
C10_RequestCounted ==
    /\ [][ReqStep =>
            LET k == <<req'.method, req'.path, resp'.code>>
            IN  /\ DOMAIN reqCount' = DOMAIN reqCount \cup {k}
                /\ reqCount'[k] = (IF k \in DOMAIN reqCount THEN reqCount[k] ELSE 0) + 1
                /\ \A j \in DOMAIN reqCount \ {k} : reqCount'[j] = reqCount[j]]_vars
    /\ [][\A j \in DOMAIN reqCount :
            j \in DOMAIN reqCount' /\ reqCount'[j] >= reqCount[j]]_vars
    /\ [](SumOver(reqCount, DOMAIN reqCount) = completed)

C10_Witness ==
    /\ completed = MaxRequests
    /\ \E k \in DOMAIN reqCount : reqCount[k] = 2 /\ k[3] = 500
    /\ \E k \in DOMAIN reqCount : k[3] = 404

====
